---- MODULE Spec2Model ----
(***************************************************************************)
(* SegmentedControl (src/components/segmentedControl/index.tsx) as a state *)
(* machine: the component's state hook, its three refs, the committed      *)
(* animatedStyle of the last render, and the event handlers onLayout and   *)
(* onSegmentPress.  The animated scalar is kept in units of 1/AnimScale so *)
(* that positions between two breakpoints are integers of the model.       *)
(***************************************************************************)
EXTENDS Integers, Sequences, FiniteSets

\* Bounds of the model.
MaxSegments == 3
MaxLayouts == 4
MaxPresses == 2
AnimScale == 2

\* const BORDER_WIDTH = 1;
BORDER_WIDTH == 1

VARIABLES
  segmentsLength,      \* props.segments.length
  initialIndex,        \* props.initialIndex
  outlineWidth,        \* props.outlineWidth
  selectedSegment,     \* useState(-1)
  segmentsStyle,       \* useRef([]) : the geometry table, a JS array
  segmentsCounter,     \* useRef(0)
  animatedValue,       \* useRef(new Reanimated.Value(initialIndex))
  animatedStyle,       \* const animatedStyle = getAnimatedStyle() of the last render
  mounted,             \* FALSE once a render has thrown
  onChangeIndexCalls,  \* props.onChangeIndex: how often it was invoked, and its last argument
  lastEvent,           \* the event handled by the last step
  pressCount,          \* how many presses were handled
  initializations      \* how often onLayout took its setSelectedSegment(initialIndex) branch

props == <<segmentsLength, initialIndex, outlineWidth>>

vars == <<segmentsLength, initialIndex, outlineWidth, selectedSegment, segmentsStyle,
          segmentsCounter, animatedValue, animatedStyle, mounted, onChangeIndexCalls,
          lastEvent, pressCount, initializations>>

\* The segment indices rendered by _.map(segments, ...).
SegmentIndices == 0 .. (segmentsLength - 1)

\* outlineWidth = BORDER_WIDTH: the default the props destructuring gives.
OutlineWidths == {BORDER_WIDTH}

\* The rectangles event.nativeEvent.layout can carry for the segment at index:
\* the row as first laid out (widths 50, 60, 40, 40, ... with a gap of 2
\* between neighbours), or the same row after a re-layout that widened every
\* segment by 8.
FirstWidth(index) == IF index = 0 THEN 50 ELSE IF index = 1 THEN 60 ELSE 40

RECURSIVE FirstX(_)
FirstX(index) == IF index = 0 THEN 0 ELSE FirstX(index - 1) + FirstWidth(index - 1) + 2

Layouts(index) ==
  { [x |-> FirstX(index), width |-> FirstWidth(index)],
    [x |-> FirstX(index) + 8 * index, width |-> FirstWidth(index) + 8] }

\* An index of a JS array that was never assigned reads as undefined.
Hole == [undefined |-> TRUE]

\* _.times(n): [0, 1, ..., n-1]
Times(n) == [k \in 1 .. n |-> k - 1]

\* arr[index] = value on a JS array (index is 0-based): the array grows to
\* index + 1 and the indices skipped stay unassigned.
ArraySet(arr, index, value) ==
  LET len == IF Len(arr) > index + 1 THEN Len(arr) ELSE index + 1
  IN  [k \in 1 .. len |->
         IF k = index + 1 THEN value
         ELSE IF k <= Len(arr) THEN arr[k] ELSE Hole]

\* _.map visits every index below array.length, and the iteratees read
\* segment.x / segment.width: a TypeError on an index that reads undefined.
MapThrows(arr) == \E k \in 1 .. Len(arr) : arr[k] = Hole

\* Mutant: the outline is not subtracted from the segment's offset.
SegmentLeft_noOutline(segment) == segment.x

SegmentLeft(segment) == segment.x - outlineWidth

SegmentWidth(segment) == segment.width

\* _.map(segmentsStyle.current, segment => segment.x - outlineWidth)
MapLeft(arr) == [k \in 1 .. Len(arr) |-> SegmentLeft(arr[k])]

\* _.map(segmentsStyle.current, segment => segment.width)
MapWidth(arr) == [k \in 1 .. Len(arr) |-> SegmentWidth(arr[k])]

\* Mutant: the breakpoints are numbered from 1.
getAnimatedStyle_inputFromOne(counter, style) ==
  IF counter = segmentsLength
  THEN IF MapThrows(style)
       THEN [kind |-> "error"]
       ELSE [kind  |-> "style",
             left  |-> [inputRange |-> [k \in 1 .. counter |-> k], outputRange |-> MapLeft(style)],
             width |-> [inputRange |-> [k \in 1 .. counter |-> k], outputRange |-> MapWidth(style)]]
  ELSE [kind |-> "undefined"]

\* getAnimatedStyle() on the given values of the two refs.
getAnimatedStyle(counter, style) ==
  IF counter = segmentsLength
  THEN IF MapThrows(style)
       THEN [kind |-> "error"]
       ELSE [kind  |-> "style",
             left  |-> [inputRange |-> Times(counter), outputRange |-> MapLeft(style)],
             width |-> [inputRange |-> Times(counter), outputRange |-> MapWidth(style)]]
  ELSE [kind |-> "undefined"]

\* interpolate's contract: matched breakpoint arrays.
WellFormed(config) ==
  /\ Len(config.inputRange) = Len(config.outputRange)
  /\ Len(config.inputRange) >= 1

\* interpolate(value, {inputRange, outputRange}): piecewise linear over the
\* breakpoints.  value and the result are in units of 1/AnimScale.
interpolate(value, config) ==
  LET inR  == config.inputRange
      outR == config.outputRange
      n    == Len(inR)
  IN  IF n = 1 THEN outR[1] * AnimScale
      ELSE LET below == {j \in 1 .. n - 1 : inR[j] * AnimScale <= value}
               k == IF below = {} THEN 1 ELSE CHOOSE j \in below : \A i \in below : i <= j
           IN  outR[k] * AnimScale
                 + ((outR[k + 1] - outR[k]) * (value - inR[k] * AnimScale))
                     \div (inR[k + 1] - inR[k])

\* The geometry a style object yields at the animated scalar's current value.
Evaluate(style, value) ==
  IF style.kind # "style" THEN [kind |-> style.kind]
  ELSE IF ~WellFormed(style.left) \/ ~WellFormed(style.width) THEN [kind |-> "illdefined"]
  ELSE [kind  |-> "style",
        left  |-> interpolate(value, style.left),
        width |-> interpolate(value, style.width)]

\* The highlight on screen: the committed animatedStyle at the current value.
RenderedHighlight == Evaluate(animatedStyle, animatedValue.value)

\* The derived highlight geometry computed on demand from the current refs.
DerivedHighlight ==
  Evaluate(getAnimatedStyle(segmentsCounter, segmentsStyle), animatedValue.value)

\* setSelectedSegment(index): the state hook; a changed value re-renders the
\* component, which calls getAnimatedStyle() on the refs as the handler left them.
setSelectedSegment(index, counter, style) ==
  /\ selectedSegment' = index
  /\ IF index # selectedSegment
     THEN LET s == getAnimatedStyle(counter, style)
          IN  /\ animatedStyle' = s
              /\ mounted' = (s.kind # "error")
     ELSE UNCHANGED <<animatedStyle, mounted>>

Init ==
  /\ segmentsLength \in 1 .. MaxSegments
  /\ initialIndex \in 0 .. (segmentsLength - 1)
  /\ outlineWidth \in OutlineWidths
  /\ selectedSegment = -1
  /\ segmentsStyle = <<>>
  /\ segmentsCounter = 0
  /\ animatedValue = [value |-> initialIndex * AnimScale, toValue |-> initialIndex, running |-> FALSE]
  /\ animatedStyle = [kind |-> "undefined"]
  /\ mounted = TRUE
  /\ onChangeIndexCalls = [count |-> 0, last |-> -1]
  /\ lastEvent = [op |-> "mount", index |-> -1]
  /\ pressCount = 0
  /\ initializations = 0

\* Mutant: the transition is started towards the selection of the last render
\* instead of the pressed index.
updateSelectedSegment_staleTarget(index) ==
  /\ animatedValue' = [animatedValue EXCEPT !.toValue = selectedSegment, !.running = TRUE]
  /\ setSelectedSegment(index, segmentsCounter, segmentsStyle)

\* Mutant: the timing transition is configured but .start() is not called.
updateSelectedSegment_notStarted(index) ==
  /\ animatedValue' = [animatedValue EXCEPT !.toValue = index]
  /\ setSelectedSegment(index, segmentsCounter, segmentsStyle)

\* Reanimated.timing(animatedValue.current, {toValue: index, ...}).start();
\* return setSelectedSegment(index)
updateSelectedSegment(index) ==
  /\ animatedValue' = [animatedValue EXCEPT !.toValue = index, !.running = TRUE]
  /\ setSelectedSegment(index, segmentsCounter, segmentsStyle)

\* Mutant: the comparison with the current selection is missing.
onSegmentPress_unguarded(index) ==
  /\ mounted
  /\ pressCount < MaxPresses
  /\ onChangeIndexCalls' = [count |-> onChangeIndexCalls.count + 1, last |-> index]
  /\ animatedValue' = [animatedValue EXCEPT !.toValue = index, !.running = TRUE]
  /\ setSelectedSegment(index, segmentsCounter, segmentsStyle)
  /\ pressCount' = pressCount + 1
  /\ lastEvent' = [op |-> "press", index |-> index]
  /\ UNCHANGED <<props, segmentsStyle, segmentsCounter, initializations>>

\* Mutant: presses are ignored until the readiness counter equals the segment count.
onSegmentPress_gated(index) ==
  /\ mounted
  /\ pressCount < MaxPresses
  /\ IF selectedSegment # index /\ segmentsCounter = segmentsLength
     THEN /\ onChangeIndexCalls' = [count |-> onChangeIndexCalls.count + 1, last |-> index]
          /\ animatedValue' = [animatedValue EXCEPT !.toValue = index, !.running = TRUE]
          /\ setSelectedSegment(index, segmentsCounter, segmentsStyle)
     ELSE UNCHANGED <<onChangeIndexCalls, animatedValue, selectedSegment, animatedStyle, mounted>>
  /\ pressCount' = pressCount + 1
  /\ lastEvent' = [op |-> "press", index |-> index]
  /\ UNCHANGED <<props, segmentsStyle, segmentsCounter, initializations>>

onSegmentPress(index) ==
  /\ mounted
  /\ pressCount < MaxPresses
  /\ IF selectedSegment # index
     THEN /\ onChangeIndexCalls' = [count |-> onChangeIndexCalls.count + 1, last |-> index]
          /\ updateSelectedSegment(index)
     ELSE UNCHANGED <<onChangeIndexCalls, animatedValue, selectedSegment, animatedStyle, mounted>>
  /\ pressCount' = pressCount + 1
  /\ lastEvent' = [op |-> "press", index |-> index]
  /\ UNCHANGED <<props, segmentsStyle, segmentsCounter, initializations>>

\* Mutant: the counter is compared before it is incremented.
onLayout_gateBeforeIncrement(index, layout) ==
  /\ mounted
  /\ segmentsCounter < MaxLayouts
  /\ segmentsStyle' = ArraySet(segmentsStyle, index, layout)
  /\ segmentsCounter' = segmentsCounter + 1
  /\ IF segmentsCounter = segmentsLength
     THEN /\ setSelectedSegment(initialIndex, segmentsCounter', segmentsStyle')
          /\ initializations' = initializations + 1
     ELSE UNCHANGED <<selectedSegment, animatedStyle, mounted, initializations>>
  /\ lastEvent' = [op |-> "layout", index |-> index]
  /\ UNCHANGED <<props, animatedValue, onChangeIndexCalls, pressCount>>

\* Mutant: the selection is seeded with the counter instead of initialIndex.
onLayout_seedsCounter(index, layout) ==
  /\ mounted
  /\ segmentsCounter < MaxLayouts
  /\ segmentsStyle' = ArraySet(segmentsStyle, index, layout)
  /\ segmentsCounter' = segmentsCounter + 1
  /\ IF segmentsCounter' = segmentsLength
     THEN /\ setSelectedSegment(segmentsCounter', segmentsCounter', segmentsStyle')
          /\ initializations' = initializations + 1
     ELSE UNCHANGED <<selectedSegment, animatedStyle, mounted, initializations>>
  /\ lastEvent' = [op |-> "layout", index |-> index]
  /\ UNCHANGED <<props, animatedValue, onChangeIndexCalls, pressCount>>

\* Mutant: the gate waits for an entry of every segment instead of counting reports.
onLayout_gatesOnEntries(index, layout) ==
  /\ mounted
  /\ segmentsCounter < MaxLayouts
  /\ segmentsStyle' = ArraySet(segmentsStyle, index, layout)
  /\ segmentsCounter' = segmentsCounter + 1
  /\ IF Len(segmentsStyle') = segmentsLength /\ ~MapThrows(segmentsStyle') /\ initializations = 0
     THEN /\ setSelectedSegment(initialIndex, segmentsLength, segmentsStyle')
          /\ initializations' = initializations + 1
     ELSE UNCHANGED <<selectedSegment, animatedStyle, mounted, initializations>>
  /\ lastEvent' = [op |-> "layout", index |-> index]
  /\ UNCHANGED <<props, animatedValue, onChangeIndexCalls, pressCount>>

\* Mutant: the gate seeds the selection through updateSelectedSegment, which
\* starts a transition.
onLayout_animatesSeed(index, layout) ==
  /\ mounted
  /\ segmentsCounter < MaxLayouts
  /\ segmentsStyle' = ArraySet(segmentsStyle, index, layout)
  /\ segmentsCounter' = segmentsCounter + 1
  /\ IF segmentsCounter' = segmentsLength
     THEN /\ setSelectedSegment(initialIndex, segmentsCounter', segmentsStyle')
          /\ animatedValue' = [animatedValue EXCEPT !.toValue = initialIndex, !.running = TRUE]
          /\ initializations' = initializations + 1
     ELSE UNCHANGED <<selectedSegment, animatedStyle, mounted, initializations, animatedValue>>
  /\ lastEvent' = [op |-> "layout", index |-> index]
  /\ UNCHANGED <<props, onChangeIndexCalls, pressCount>>

onLayout(index, layout) ==
  /\ mounted
  /\ segmentsCounter < MaxLayouts
  /\ segmentsStyle' = ArraySet(segmentsStyle, index, layout)
  /\ segmentsCounter' = segmentsCounter + 1
  /\ IF segmentsCounter' = segmentsLength
     THEN /\ setSelectedSegment(initialIndex, segmentsCounter', segmentsStyle')
          /\ initializations' = initializations + 1
     ELSE UNCHANGED <<selectedSegment, animatedStyle, mounted, initializations>>
  /\ lastEvent' = [op |-> "layout", index |-> index]
  /\ UNCHANGED <<props, animatedValue, onChangeIndexCalls, pressCount>>

\* One step of the running timing transition towards toValue.  The transition
\* belongs to the Reanimated value, not to the component's render.
AnimationTick ==
  /\ animatedValue.running
  /\ LET target == animatedValue.toValue * AnimScale
         v == animatedValue.value
         next == IF v < target THEN v + 1 ELSE IF v > target THEN v - 1 ELSE v
     IN  animatedValue' = [animatedValue EXCEPT !.value = next, !.running = (next # target)]
  /\ lastEvent' = [op |-> "tick", index |-> -1]
  /\ UNCHANGED <<props, selectedSegment, segmentsStyle, segmentsCounter, animatedStyle,
                 mounted, onChangeIndexCalls, pressCount, initializations>>

Press == \E index \in SegmentIndices : onSegmentPress(index)

LayoutReport == \E index \in SegmentIndices : \E layout \in Layouts(index) : onLayout(index, layout)

Next == Press \/ LayoutReport \/ AnimationTick

Spec == Init /\ [][Next]_vars

\* A layout report carrying the rectangle of the first layout pass.
FirstLayoutReport ==
  \E index \in SegmentIndices :
    onLayout(index, [x |-> FirstX(index), width |-> FirstWidth(index)])

FairNext == Press \/ FirstLayoutReport \/ AnimationTick

\* A started timing transition is driven to its end by the animation clock.
\* The rectangles a report carries play no part in presses and transitions,
\* so this specification keeps to those of the first layout pass.
FairSpec == Init /\ [][FairNext]_vars /\ WF_vars(AnimationTick)

(***************************************************************************)
(* Observations used by the properties.                                    *)
(***************************************************************************)

\* Segment i has an entry in the geometry table: it reported at least once.
Reported(i) == i < Len(segmentsStyle) /\ segmentsStyle[i + 1] # Hole

AllReported == \A i \in SegmentIndices : Reported(i)

\* Every report increments the counter, so N segments with an entry each and
\* a counter of N means each of them reported exactly once.
EachReportedOnce == AllReported /\ segmentsCounter = segmentsLength

\* The readiness gate: the counter has reached the segment count.
GatePassed == segmentsCounter >= segmentsLength

PressStep(i) == lastEvent'.op = "press" /\ lastEvent'.index = i

\* The rectangle of segment k in the geometry table, as a highlight.
SegmentHighlight(k) ==
  [kind  |-> "style",
   left  |-> (segmentsStyle[k + 1].x - outlineWidth) * AnimScale,
   width |-> segmentsStyle[k + 1].width * AnimScale]

\* C1: after each of the N segments has reported its layout exactly once and no
\* press has occurred, selectedSegment equals initialIndex and onChangeIndex
\* has not been invoked.
C1_InitialSelection ==
  (EachReportedOnce /\ pressCount = 0)
    => (selectedSegment = initialIndex /\ onChangeIndexCalls.count = 0)

C1_Witness ==
  /\ EachReportedOnce
  /\ pressCount = 0
  /\ segmentsLength = 3
  /\ initialIndex = 2
  /\ selectedSegment = 2
  /\ lastEvent.op = "layout"

\* C2 as stated: selectedSegment is -1 as long as the readiness gate has not
\* passed, and an index in [0, N-1] after it has passed.
C2_Original ==
  /\ ~GatePassed => selectedSegment = -1
  /\ GatePassed => selectedSegment \in SegmentIndices

\* C2 (amended): selectedSegment is -1 as long as the readiness gate has not
\* passed and no segment has been pressed, and after the gate has passed it is
\* always an index in [0, N-1].
C2_Amended ==
  /\ (~GatePassed /\ pressCount = 0) => selectedSegment = -1
  /\ GatePassed => selectedSegment \in SegmentIndices

C2_Witness ==
  /\ GatePassed
  /\ lastEvent.op = "press"
  /\ selectedSegment \in SegmentIndices
  /\ selectedSegment # initialIndex

\* C3: pressing the index that is currently selected changes nothing:
\* selectedSegment, the animated scalar and its target, the geometry table
\* and the readiness counter are unchanged, and onChangeIndex is not invoked.
C3_RepressIsNoOp ==
  [][\A i \in SegmentIndices :
       (PressStep(i) /\ selectedSegment = i)
         => UNCHANGED <<selectedSegment, animatedValue, segmentsStyle, segmentsCounter,
                        onChangeIndexCalls, animatedStyle>>]_vars

C3_Witness ==
  /\ lastEvent.op = "press"
  /\ lastEvent.index = selectedSegment
  /\ pressCount = 1
  /\ onChangeIndexCalls.count = 0

\* C4: pressing a valid index i that differs from selectedSegment invokes
\* onChangeIndex exactly once with argument i, sets selectedSegment to i in
\* the same step and starts a transition of the animated scalar towards i.
C4_PressSelects ==
  [][\A i \in SegmentIndices :
       (PressStep(i) /\ selectedSegment # i)
         => /\ onChangeIndexCalls' = [count |-> onChangeIndexCalls.count + 1, last |-> i]
            /\ selectedSegment' = i
            /\ animatedValue'.toValue = i
            /\ animatedValue'.running]_vars

C4_Witness ==
  /\ GatePassed
  /\ initialIndex = 1
  /\ lastEvent = [op |-> "press", index |-> 2]
  /\ pressCount = 1
  /\ selectedSegment = 2
  /\ onChangeIndexCalls = [count |-> 1, last |-> 2]
  /\ animatedValue.toValue = 2

\* C5: while at least one segment has not reported its layout, the highlight
\* geometry computed at render is undefined.
C5_NoHighlightBeforeAllReported ==
  ~AllReported => animatedStyle.kind = "undefined"

\* C6: once the readiness gate has passed, the geometry table holds exactly
\* one entry for each segment index 0..N-1.
C6_TableCompleteAfterGate ==
  GatePassed => (Len(segmentsStyle) = segmentsLength /\ AllReported)

\* C7: whenever getAnimatedStyle takes its interpolation branch, the inputRange
\* is 0..N-1 and both outputRange arrays have the same length N.
C7_RangesMatch ==
  animatedStyle.kind = "style"
    => /\ animatedStyle.left.inputRange = Times(segmentsLength)
       /\ animatedStyle.width.inputRange = Times(segmentsLength)
       /\ Len(animatedStyle.left.outputRange) = segmentsLength
       /\ Len(animatedStyle.width.outputRange) = segmentsLength

\* C8: once every segment has been measured, when the animated scalar equals
\* an integer breakpoint k the derived highlight geometry is exactly
\* {left: x[k] - outlineWidth, width: width[k]}.
C8_ExactAtBreakpoints ==
  \A k \in SegmentIndices :
    (AllReported /\ animatedValue.value = k * AnimScale)
      => DerivedHighlight = SegmentHighlight(k)

\* C9: after each of the N segments has reported its layout exactly once and no
\* press has occurred, the rendered highlight is the rectangle of the
\* initialIndex segment: left = x[initialIndex] - outlineWidth and
\* width = width[initialIndex].
C9_InitialHighlight ==
  (EachReportedOnce /\ pressCount = 0)
    => RenderedHighlight = SegmentHighlight(initialIndex)

C9_Witness ==
  /\ segmentsLength = 3
  /\ initialIndex = 1
  /\ outlineWidth = 1
  /\ segmentsCounter = 3
  /\ pressCount = 0
  /\ segmentsStyle = << [x |-> 0, width |-> 50], [x |-> 52, width |-> 60], [x |-> 114, width |-> 40] >>
  /\ selectedSegment = 1
  /\ RenderedHighlight = [kind |-> "style", left |-> 51 * AnimScale, width |-> 60 * AnimScale]

\* C10: in every state, whatever the readiness counter and the geometry table
\* hold, pressing an index different from selectedSegment invokes onChangeIndex
\* with that index and makes it the selected segment, and pressing the
\* selected index invokes nothing and leaves the selection alone.
C10_PressRegardlessOfMeasurement ==
  [][\A i \in SegmentIndices :
       PressStep(i)
         => IF selectedSegment # i
            THEN /\ onChangeIndexCalls'.count = onChangeIndexCalls.count + 1
                 /\ onChangeIndexCalls'.last = i
                 /\ selectedSegment' = i
            ELSE UNCHANGED <<onChangeIndexCalls, selectedSegment>>]_vars

C10_Witness ==
  /\ ~AllReported
  /\ segmentsCounter > segmentsLength
  /\ lastEvent.op = "press"
  /\ selectedSegment = lastEvent.index
  /\ onChangeIndexCalls.last = lastEvent.index
  /\ onChangeIndexCalls.count = pressCount

\* segmentsStyle.current[j] as JavaScript reads it.
Entry(j) == IF j < Len(segmentsStyle) THEN segmentsStyle[j + 1] ELSE Hole

LayoutStep(i) == lastEvent'.op = "layout" /\ lastEvent'.index = i

\* The animated scalar is exactly halfway between the breakpoints k and k + 1.
Halfway(k) == 2 * animatedValue.value = (2 * k + 1) * AnimScale

C12_Original ==
  (segmentsCounter > segmentsLength /\ ~AllReported) => initializations = 0

\* C12 (amended): no run overshoots without initializing: whenever the counter
\* has passed the segment count, the initialization branch has fired exactly
\* once, also when repeated layout events came before every segment reported.
C12_Amended ==
  segmentsCounter > segmentsLength => initializations = 1

C12_Witness ==
  /\ segmentsCounter > segmentsLength
  /\ ~AllReported
  /\ initializations = 1
  /\ selectedSegment = initialIndex
  /\ pressCount = 0

\* C13: once every segment has reported its layout at least once, the highlight
\* geometry computed at the render that follows a layout or press event is
\* defined, and this stays so under all later layout and press events.
C13_SelfHeals ==
  [][(/\ AllReported
      /\ lastEvent'.op \in {"layout", "press"}
      /\ selectedSegment' # selectedSegment)
       => animatedStyle'.kind = "style"]_vars

\* C14: the animation target is the index of the most recent press that
\* changed the selection, and once no further press retargets the animated
\* scalar it eventually settles at that index.
C14_LastPressWins ==
  /\ [](onChangeIndexCalls.count > 0 => animatedValue.toValue = onChangeIndexCalls.last)
  /\ \A i \in 0 .. (MaxSegments - 1) :
       <>[](animatedValue.toValue = i)
         => <>[](animatedValue.value = i * AnimScale /\ ~animatedValue.running)

C14_Witness ==
  /\ pressCount = 2
  /\ onChangeIndexCalls.count = 2
  /\ onChangeIndexCalls.last = 0
  /\ animatedValue.toValue = 0
  /\ animatedValue.value = 0
  /\ ~animatedValue.running
  /\ initialIndex = 0
  /\ lastEvent.op = "tick"

\* C15: a layout report never invokes onChangeIndex and never touches the
\* animated scalar or its target; it increments the readiness counter, leaves
\* the geometry entries of all other indices alone, and changes selectedSegment
\* only at the gate, to initialIndex.
C15_LayoutFrame ==
  [][\A i \in SegmentIndices :
       LayoutStep(i)
         => /\ onChangeIndexCalls' = onChangeIndexCalls
            /\ animatedValue' = animatedValue
            /\ pressCount' = pressCount
            /\ segmentsCounter' = segmentsCounter + 1
            /\ \A j \in SegmentIndices \ {i} : Entry(j)' = Entry(j)
            /\ selectedSegment' # selectedSegment
                 => (segmentsCounter' = segmentsLength /\ selectedSegment' = initialIndex)]_vars

C15_Witness ==
  /\ lastEvent.op = "layout"
  /\ segmentsCounter > segmentsLength
  /\ segmentsCounter > Len(segmentsStyle) + 1
  /\ onChangeIndexCalls.count = 1
  /\ animatedValue.toValue # initialIndex
  /\ animatedValue.running

\* C16: the initialization step setSelectedSegment(initialIndex) fires at most
\* once, and it fires exactly at the N-th layout report received: it has not
\* fired while fewer than N reports were received and has fired once from the
\* N-th report on, whichever segments the reports came from.
C16_InitializesAtNthReport ==
  initializations = (IF segmentsCounter >= segmentsLength THEN 1 ELSE 0)

C16_Witness ==
  /\ segmentsLength = 2
  /\ segmentsCounter = 2
  /\ segmentsStyle = << Hole, [x |-> 52, width |-> 60] >>
  /\ initializations = 1
  /\ lastEvent = [op |-> "layout", index |-> 1]

\* C17: whenever selectedSegment differs from -1, the animation target of the
\* animated scalar equals selectedSegment.
C17_TargetIsSelection ==
  selectedSegment # -1 => animatedValue.toValue = selectedSegment

\* C18: whenever selectedSegment differs from -1, it equals the argument of the
\* most recent onChangeIndex invocation, or initialIndex if onChangeIndex has
\* never been invoked.
C18_HostTracksSelection ==
  selectedSegment # -1
    => selectedSegment = (IF onChangeIndexCalls.count = 0 THEN initialIndex
                          ELSE onChangeIndexCalls.last)

====
